---- MODULE Spec2Model ----
(***************************************************************************)
(* The JSON-RPC ("MCP") endpoint of square-mcp-server: the POST /mcp       *)
(* handler of each server variant, the two-level service/method registry   *)
(* lookup, the write-policy gate and the mapping of every failure onto an  *)
(* HTTP status and a JSON-RPC error code.                                  *)
(*                                                                         *)
(* JavaScript strings that the code transforms (charAt, slice,             *)
(* toUpperCase, toLowerCase, property keys) are sequences of one-character *)
(* strings.  Strings that the code only compares or echoes (jsonrpc, the   *)
(* top-level method, the tool name, the id) are opaque literals.           *)
(***************************************************************************)
EXTENDS Integers, Sequences, FiniteSets, TLC

VARIABLES
    variant,    \* which server file this process runs
    env,        \* process.env, fixed when the process starts
    pc,         \* pc[i]: where request i's async handler stands
    body,       \* body[i]: req.body of request i
    pending,    \* pending[i]: the locals request i keeps across an await
    responses,  \* responses[i]: what was written to res, in order
    calls,      \* calls[i]: handler / fetch invocations made for request i
    reads,      \* reads[i]: the process-wide data request i's handler has read
    outcomes    \* outcomes[i]: how the calls awaited for request i settled

vars == <<variant, env, pc, body, pending, responses, calls, reads, outcomes>>

----------------------------------------------------------------------------
(* JavaScript values *)

Undefined == [t |-> "undefined"]
Null == [t |-> "null"]
Str(chars) == [t |-> "string", chars |-> chars]
Lit(s) == [t |-> "string", s |-> s]
Num(n) == [t |-> "number", n |-> n]
Bool(b) == [t |-> "boolean", b |-> b]
PlainObject(keys) == [t |-> "object", class |-> "Object", keys |-> keys]

IsNullish(v) == v.t \in {"undefined", "null"}

\* ToBoolean: undefined, null, false, 0 and the empty string are falsy
Truthy(v) ==
    CASE v.t \in {"undefined", "null"} -> FALSE
      [] v.t = "boolean" -> v.b
      [] v.t = "number" -> v.n # 0
      [] v.t = "string" -> IF "chars" \in DOMAIN v THEN v.chars # <<>> ELSE v.s # ""
      [] OTHER -> TRUE

----------------------------------------------------------------------------
(* String.prototype methods used by the servers *)

LowerChars ==
    <<"a","b","c","d","e","f","g","h","i","j","k","l","m",
      "n","o","p","q","r","s","t","u","v","w","x","y","z">>
UpperChars ==
    <<"A","B","C","D","E","F","G","H","I","J","K","L","M",
      "N","O","P","Q","R","S","T","U","V","W","X","Y","Z">>

IndexIn(c, alphabet) ==
    IF \E k \in 1..Len(alphabet) : alphabet[k] = c
        THEN CHOOSE k \in 1..Len(alphabet) : alphabet[k] = c
        ELSE 0

UpperChar(c) ==
    LET k == IndexIn(c, LowerChars) IN IF k = 0 THEN c ELSE UpperChars[k]
LowerChar(c) ==
    LET k == IndexIn(c, UpperChars) IN IF k = 0 THEN c ELSE LowerChars[k]

toUpperCase(s) == [k \in 1..Len(s) |-> UpperChar(s[k])]
toLowerCase(s) == [k \in 1..Len(s) |-> LowerChar(s[k])]
\* s.charAt(0): the first character, or "" for the empty string
charAt0(s) == IF Len(s) = 0 THEN <<>> ELSE <<s[1]>>
\* s.slice(1)
slice1(s) == IF Len(s) = 0 THEN <<>> ELSE SubSeq(s, 2, Len(s))

\* upper-casing the whole name
CapitalizeAll(s) == [k \in 1..Len(s) |-> UpperChar(s[k])]
\* service.charAt(0).toUpperCase() + service.slice(1)
Capitalize(s) == toUpperCase(charAt0(s)) \o slice1(s)

\* ToPropertyKey / template interpolation of a value used as a name
KeyChars(v) ==
    CASE v.t = "string" -> v.chars
      [] v.t = "undefined" -> <<"u","n","d","e","f","i","n","e","d">>
      [] v.t = "null" -> <<"n","u","l","l">>
      [] v.t = "number" -> <<"7">>
      [] OTHER -> <<"[","o","b","j","e","c","t"," ","O","b","j","e","c","t","]">>

----------------------------------------------------------------------------
(* Names *)

s_list == <<"l","i","s","t">>
s_get == <<"g","e","t">>
s_create == <<"c","r","e","a","t","e">>
s_update == <<"u","p","d","a","t","e">>
s_delete == <<"d","e","l","e","t","e">>
s_List == <<"L","i","s","t">>
s_bogus == <<"b","o","g","u","s">>
s_constructor == <<"c","o","n","s","t","r","u","c","t","o","r">>
s_toString == <<"t","o","S","t","r","i","n","g">>
s_isPrototypeOf == <<"i","s","P","r","o","t","o","t","y","p","e","O","f">>
s_valueOf == <<"v","a","l","u","e","O","f">>
s_proto == <<"_","_","p","r","o","t","o","_","_">>
s_catalog == <<"c","a","t","a","l","o","g">>
s_Catalog == <<"C","a","t","a","l","o","g">>
s_applepay == <<"a","p","p","l","e","p","a","y">>
s_customers == <<"c","u","s","t","o","m","e","r","s">>
s_Customers == <<"C","u","s","t","o","m","e","r","s">>
s_isWrite == <<"i","s","W","r","i","t","e">>
s_requestType == <<"r","e","q","u","e","s","t","T","y","p","e">>
s_description == <<"d","e","s","c","r","i","p","t","i","o","n">>

----------------------------------------------------------------------------
(* The registry *)

\* Object.keys(serviceMethodsMap) = Object.keys(serviceHandlersMap), in
\* insertion order
ServiceKeys ==
    << <<"A","p","p","l","e","P","a","y">>,
       <<"B","a","n","k","A","c","c","o","u","n","t","s">>,
       <<"B","o","o","k","i","n","g","C","u","s","t","o","m","A","t","t","r","i","b","u","t","e","s">>,
       <<"B","o","o","k","i","n","g","s">>,
       <<"C","a","r","d","s">>,
       <<"C","a","s","h","D","r","a","w","e","r","s">>,
       <<"C","a","t","a","l","o","g">>,
       <<"C","h","e","c","k","o","u","t">>,
       <<"C","u","s","t","o","m","e","r","C","u","s","t","o","m","A","t","t","r","i","b","u","t","e","s">>,
       <<"C","u","s","t","o","m","e","r","G","r","o","u","p","s">>,
       <<"C","u","s","t","o","m","e","r","S","e","g","m","e","n","t","s">>,
       <<"C","u","s","t","o","m","e","r","s">>,
       <<"D","e","v","i","c","e","s">>,
       <<"D","i","s","p","u","t","e","s">>,
       <<"E","v","e","n","t","s">>,
       <<"G","i","f","t","C","a","r","d","A","c","t","i","v","i","t","i","e","s">>,
       <<"G","i","f","t","C","a","r","d","s">>,
       <<"I","n","v","e","n","t","o","r","y">>,
       <<"I","n","v","o","i","c","e","s">>,
       <<"L","a","b","o","r">>,
       <<"L","o","c","a","t","i","o","n","C","u","s","t","o","m","A","t","t","r","i","b","u","t","e","s">>,
       <<"L","o","c","a","t","i","o","n","s">>,
       <<"L","o","y","a","l","t","y">>,
       <<"M","e","r","c","h","a","n","t","C","u","s","t","o","m","A","t","t","r","i","b","u","t","e","s">>,
       <<"M","e","r","c","h","a","n","t","s">>,
       <<"O","A","u","t","h">>,
       <<"O","r","d","e","r","C","u","s","t","o","m","A","t","t","r","i","b","u","t","e","s">>,
       <<"O","r","d","e","r","s">>,
       <<"P","a","y","m","e","n","t","s">>,
       <<"P","a","y","o","u","t","s">>,
       <<"R","e","f","u","n","d","s">>,
       <<"S","i","t","e","s">>,
       <<"S","n","i","p","p","e","t","s">>,
       <<"S","u","b","s","c","r","i","p","t","i","o","n","s">>,
       <<"T","e","a","m">>,
       <<"T","e","r","m","i","n","a","l">>,
       <<"V","e","n","d","o","r","s">>,
       <<"W","e","b","h","o","o","k","S","u","b","s","c","r","i","p","t","i","o","n","s">> >>

Range(seq) == {seq[k] : k \in 1..Len(seq)}

\* The per-service tables live in ./services/*.js: one table of ApiMethodInfo
\* and one table of handlers per service, with the same method names.
MethodNames(K) ==
    CASE K = s_Catalog -> <<s_list, s_create>>
      [] K = s_Customers -> <<s_list, s_delete>>
      [] OTHER -> <<s_list>>
HandlerNames(K) == MethodNames(K)
\* ApiMethodInfo.isWrite of a registered method
IsWriteMethod(K, m) == m \in {s_create, s_update, s_delete}
\* ApiMethodInfo.requestType of a registered method
RequestTypeName(K, m) == Str(K \o <<".">> \o m)
\* the keys of typeMap (./utils/type-map.js)
TypeMapHas(name) ==
    /\ name.t = "string"
    /\ \E K \in Range(ServiceKeys) : \E m \in Range(MethodNames(K)) :
            name = RequestTypeName(K, m)
    /\ name # RequestTypeName(s_Customers, s_delete)

serviceMethodsMap == [t |-> "object", class |-> "serviceMethodsMap"]
serviceHandlersMap == [t |-> "object", class |-> "serviceHandlersMap"]
MethodsObj(K) == [t |-> "object", class |-> "Methods", service |-> K]
HandlersObj(K) == [t |-> "object", class |-> "Handlers", service |-> K]
MethodInfo(K, m) ==
    [t |-> "object", class |-> "ApiMethodInfo", service |-> K, method |-> m]
HandlerFn(K, m) ==
    [t |-> "function", class |-> "handler", service |-> K, method |-> m]
ObjectPrototype == [t |-> "object", class |-> "Object.prototype"]
Builtin(name) == [t |-> "function", class |-> "builtin", name |-> name]

\* the function-valued properties of Object.prototype
ObjectPrototypeFunctions ==
    { s_constructor, s_toString, s_valueOf, s_isPrototypeOf,
      <<"t","o","L","o","c","a","l","e","S","t","r","i","n","g">>,
      <<"h","a","s","O","w","n","P","r","o","p","e","r","t","y">>,
      <<"p","r","o","p","e","r","t","y","I","s","E","n","u","m","e","r","a","b","l","e">>,
      <<"_","_","d","e","f","i","n","e","G","e","t","t","e","r","_","_">>,
      <<"_","_","d","e","f","i","n","e","S","e","t","t","e","r","_","_">>,
      <<"_","_","l","o","o","k","u","p","G","e","t","t","e","r","_","_">>,
      <<"_","_","l","o","o","k","u","p","S","e","t","t","e","r","_","_">> }

\* src/http-server-simple.ts: the keys of serviceEndpoints (and of
\* serviceEndpointsInfo), in insertion order
EndpointNames ==
    << <<"l","o","c","a","t","i","o","n","s">>,
       <<"c","u","s","t","o","m","e","r","s">>,
       <<"c","a","t","a","l","o","g">>,
       <<"p","a","y","m","e","n","t","s">>,
       <<"o","r","d","e","r","s">>,
       <<"i","n","v","e","n","t","o","r","y">>,
       <<"g","i","f","t","c","a","r","d","s">>,
       <<"l","o","y","a","l","t","y">>,
       <<"b","o","o","k","i","n","g","s">>,
       <<"d","e","v","i","c","e","s">>,
       <<"d","i","s","p","u","t","e","s">>,
       <<"i","n","v","o","i","c","e","s">>,
       <<"l","a","b","o","r">>,
       <<"m","e","r","c","h","a","n","t","s">>,
       <<"p","a","y","o","u","t","s">>,
       <<"r","e","f","u","n","d","s">>,
       <<"s","u","b","s","c","r","i","p","t","i","o","n","s">>,
       <<"t","e","a","m">>,
       <<"t","e","r","m","i","n","a","l">>,
       <<"v","e","n","d","o","r","s">>,
       <<"w","e","b","h","o","o","k","s","u","b","s","c","r","i","p","t","i","o","n","s">> >>
\* the value of serviceEndpoints[k]
EndpointPath(k) ==
    IF k = <<"g","i","f","t","c","a","r","d","s">>
        THEN Str(<<"/","v","2","/","g","i","f","t","-","c","a","r","d","s">>)
    ELSE IF k = <<"w","e","b","h","o","o","k","s","u","b","s","c","r","i","p","t","i","o","n","s">>
        THEN Str(<<"/","v","2","/","w","e","b","h","o","o","k","-","s","u","b","s","c","r","i","p","t","i","o","n","s">>)
    ELSE Str(<<"/","v","2","/">> \o k)
serviceEndpoints == [t |-> "object", class |-> "serviceEndpoints"]
methodMap == [t |-> "object", class |-> "methodMap"]

\* Object.keys(obj): the own enumerable string keys, in insertion order
ObjectKeys(obj) ==
    CASE obj.class \in {"serviceMethodsMap", "serviceHandlersMap"} -> ServiceKeys
      [] obj.class = "Methods" -> MethodNames(obj.service)
      [] obj.class = "Handlers" -> HandlerNames(obj.service)
      [] obj.class = "ApiMethodInfo" -> <<s_description, s_isWrite, s_requestType>>
      [] obj.class = "serviceEndpoints" -> EndpointNames
      [] obj.class = "methodMap" -> <<s_list, s_get, s_create, s_update, s_delete>>
      [] OTHER -> <<>>

\* obj[key] of an own property
OwnProperty(obj, k) ==
    CASE obj.class = "serviceMethodsMap" -> MethodsObj(k)
      [] obj.class = "serviceHandlersMap" -> HandlersObj(k)
      [] obj.class = "Methods" -> MethodInfo(obj.service, k)
      [] obj.class = "Handlers" -> HandlerFn(obj.service, k)
      [] obj.class = "ApiMethodInfo" ->
            IF k = s_isWrite THEN Bool(IsWriteMethod(obj.service, obj.method))
            ELSE IF k = s_requestType THEN RequestTypeName(obj.service, obj.method)
            ELSE Lit("description")
      [] obj.class = "serviceEndpoints" -> EndpointPath(k)
      [] obj.class = "methodMap" ->
            IF k \in {s_list, s_get} THEN Str(<<"G","E","T">>)
            ELSE IF k = s_create THEN Str(<<"P","O","S","T">>)
            ELSE IF k = s_update THEN Str(<<"P","U","T">>)
            ELSE Str(<<"D","E","L","E","T","E">>)
      [] OTHER -> Undefined

\* obj[key] as JavaScript evaluates it on an ordinary object or function: the
\* own property when there is one, else the property inherited from
\* Object.prototype, else undefined.  (The own members of Function.prototype
\* are left out: no request of the model reads them.)
Get(obj, key) ==
    LET k == KeyChars(key) IN
    IF k \in Range(ObjectKeys(obj)) THEN OwnProperty(obj, k)
    ELSE IF k \in ObjectPrototypeFunctions THEN Builtin(k)
    ELSE IF k = s_proto
        THEN (IF obj.class = "Object.prototype" THEN Null ELSE ObjectPrototype)
    ELSE Undefined

----------------------------------------------------------------------------
(* Errors and the outcome of the synchronous part of a tool call *)

\* error.message of `new Error(template)` with its interpolated values
Message(template, parts) == [template |-> template, parts |-> parts]
Json(v) == [t |-> "json", of |-> v]

Throw(message) == [k |-> "throw", message |-> message]
Return(result) == [k |-> "return", result |-> result]
Await(next, locals) == [k |-> "await", next |-> next, locals |-> locals]

\* TypeError of `const { ... } = undefined`
CannotDestructure == Message("TypeError: Cannot destructure", <<>>)
\* TypeError of x.f(...) where x is undefined/null or x.f is no function
NotCallable(f, x) == Message("TypeError: ${x}.${f} is not a function", <<x>>)

TextContent(text) == [content |-> <<[type |-> "text", text |-> text]>>]

\* an error that lists the names as callers write them
InvalidServiceLowerCased(service) ==
    [template |-> "Invalid service: ${service}. Available services: ${keys}",
     parts |-> <<service, [t |-> "json", of |-> [k \in 1..Len(ServiceKeys) |-> toLowerCase(ServiceKeys[k])]]>>]
InvalidService(service) ==
    Message("Invalid service: ${service}. Available services: ${keys}",
            <<service, Json(ObjectKeys(serviceMethodsMap))>>)
InvalidMethod(method, service, methods) ==
    Message("Invalid method ${method} for service ${service}. Available methods: ${keys}",
            <<method, service, Json(ObjectKeys(methods))>>)
WriteDisallowed(service, method) ==
    Message("Write operations are not allowed in this environment. Attempted operation: ${service}.${method}",
            <<service, method>>)
NoHandler(service, method) ==
    Message("No handler found for ${service}.${method}", <<service, method>>)
TypeInfoMissing(name) ==
    Message("Type information not found for ${requestTypeName}", <<name>>)
UnknownTool(name) == Message("Unknown tool: ${name}", <<name>>)

\* a gate that asks whether the variable is set at all
WritesDisabledIfSet(e) == Truthy(e.DISALLOW_WRITES)
\* process.env.DISALLOW_WRITES == "true"
WritesDisabled(e) == e.DISALLOW_WRITES = Lit("true")

----------------------------------------------------------------------------
(* src/http-server.ts: the three tools *)

\* case 'make_api_request', up to `await getAccessToken()`
make_api_request(args, e) ==
    IF IsNullish(args) THEN Throw(CannotDestructure)
    ELSE LET service == args.service
             method == args.method
             request == args.request
         IN
         IF service.t # "string" THEN Throw(NotCallable("charAt", service))
         ELSE LET serviceName == Str(Capitalize(service.chars))
                  methods == Get(serviceMethodsMap, serviceName)
              IN
              IF ~Truthy(methods) THEN Throw(InvalidService(service))
              ELSE LET handlers == Get(serviceHandlersMap, serviceName)
                       methodInfo == Get(methods, method)
                   IN
                   IF ~Truthy(methodInfo)
                       THEN Throw(InvalidMethod(method, service, methods))
                   ELSE IF WritesDisabled(e) /\ Truthy(Get(methodInfo, Str(s_isWrite)))
                       THEN Throw(WriteDisallowed(service, method))
                   ELSE LET handler == Get(handlers, method) IN
                        IF ~Truthy(handler)
                            THEN Throw(NoHandler(service, method))
                            ELSE Await("awaitToken",
                                       [handler |-> handler, request |-> request])

\* a get_type_info that looks the service up under the caller's spelling
get_type_info_verbatim(args) ==
    IF IsNullish(args) THEN Throw(CannotDestructure)
    ELSE IF args.service.t # "string" THEN Throw(NotCallable("charAt", args.service))
    ELSE LET typeMethods == Get(serviceMethodsMap, args.service) IN
         IF ~Truthy(typeMethods) THEN Throw(InvalidService(args.service))
         ELSE LET methodInfo2 == Get(typeMethods, args.method) IN
              IF ~Truthy(methodInfo2)
                  THEN Throw(InvalidMethod(args.method, args.service, typeMethods))
              ELSE LET requestTypeName == Get(methodInfo2, Str(s_requestType)) IN
                   IF ~TypeMapHas(requestTypeName)
                       THEN Throw(TypeInfoMissing(requestTypeName))
                       ELSE Return(TextContent(Json(requestTypeName)))
\* case 'get_type_info'
get_type_info(args) ==
    IF IsNullish(args) THEN Throw(CannotDestructure)
    ELSE LET typeService == args.service
             typeMethod == args.method
         IN
         IF typeService.t # "string" THEN Throw(NotCallable("charAt", typeService))
         ELSE LET typeServiceName == Str(Capitalize(typeService.chars))
                  typeMethods == Get(serviceMethodsMap, typeServiceName)
              IN
              IF ~Truthy(typeMethods) THEN Throw(InvalidService(typeService))
              ELSE LET methodInfo2 == Get(typeMethods, typeMethod) IN
                   IF ~Truthy(methodInfo2)
                       THEN Throw(InvalidMethod(typeMethod, typeService, typeMethods))
                   ELSE LET requestTypeName == Get(methodInfo2, Str(s_requestType)) IN
                        IF ~TypeMapHas(requestTypeName)
                            THEN Throw(TypeInfoMissing(requestTypeName))
                            ELSE Return(TextContent(Json(requestTypeName)))

\* case 'get_service_info'
get_service_info(args) ==
    IF IsNullish(args) THEN Throw(CannotDestructure)
    ELSE LET infoService == args.service IN
         IF infoService.t # "string" THEN Throw(NotCallable("charAt", infoService))
         ELSE LET infoServiceName == Str(Capitalize(infoService.chars))
                  infoMethods == Get(serviceMethodsMap, infoServiceName)
              IN
              IF ~Truthy(infoMethods) THEN Throw(InvalidService(infoService))
              ELSE Return(TextContent(Json(
                       [methods |-> ObjectKeys(infoMethods), fields |-> {"description"}])))

\* switch (name) of case 'tools/call', inside the inner try
ToolCall(name, args, e) ==
    CASE name = Lit("make_api_request") -> make_api_request(args, e)
      [] name = Lit("get_type_info") -> get_type_info(args)
      [] name = Lit("get_service_info") -> get_service_info(args)
      [] OTHER -> Throw(UnknownTool(name))

----------------------------------------------------------------------------
(* src/http-server-simple.ts and src/unnamed/part_000: the REST variants *)

\* a getter without the `|| ''` default
getAccessTokenRaw(e) == e.ACCESS_TOKEN
\* accessToken || ''
getAccessToken(e) == IF Truthy(e.ACCESS_TOKEN) THEN e.ACCESS_TOKEN ELSE Lit("")

\* setBaseUrl(): Throw(...) when both flags are "true", else Return(baseUrl)
setBaseUrl(e) ==
    IF e.SANDBOX = Lit("true") /\ e.PRODUCTION = Lit("true")
        THEN Throw(Message("Both SANDBOX and PRODUCTION env vars are true", <<>>))
    ELSE IF e.SANDBOX = Lit("true")
        THEN Return(Lit("https://connect.squareupsandbox.com"))
        ELSE Return(Lit("https://connect.squareup.com"))

\* fetch(url, { method, headers, body })
FetchCall(base, path, httpMethod, token, reqBody) ==
    [fn |-> "fetch", base |-> base, path |-> path, method |-> httpMethod,
     token |-> token, body |-> reqBody]

UnsupportedService(service) ==
    Message("Unsupported service: ${service}. Available services: ${keys}",
            <<service, Json(ObjectKeys(serviceEndpoints))>>)

\* simple: case 'make_api_request' after `await getAccessToken()`, up to fetch
simple_make_api_request(locals, e) ==
    LET service == locals.service
        method == locals.method
        request == locals.request
        token == getAccessToken(e)
        baseUrl == setBaseUrl(e)
    IN
    IF baseUrl.k = "throw" THEN baseUrl
    ELSE IF service.t # "string" THEN Throw(NotCallable("toLowerCase", service))
    ELSE LET endpoint == Get(serviceEndpoints, Str(toLowerCase(service.chars))) IN
         IF ~Truthy(endpoint) THEN Throw(UnsupportedService(service))
         ELSE IF method.t # "string" THEN Throw(NotCallable("toLowerCase", method))
         ELSE LET mapped == Get(methodMap, Str(toLowerCase(method.chars)))
                  httpMethod == IF Truthy(mapped) THEN mapped
                                ELSE Str(toUpperCase(method.chars))
                  withBody == /\ Truthy(request)
                              /\ httpMethod \in { Str(<<"P","O","S","T">>),
                                                  Str(<<"P","U","T">>),
                                                  Str(<<"P","A","T","C","H">>) }
              IN Await("awaitFetch",
                       FetchCall(baseUrl.result, endpoint, httpMethod, token,
                                 IF withBody THEN Json(request) ELSE Undefined))

\* part_000: case 'make_api_request' after `await getAccessToken()`, up to fetch
basic_make_api_request(locals, e) ==
    LET service == locals.service
        method == locals.method
        request == locals.request
        token == getAccessToken(e)
        baseUrl == setBaseUrl(e)
    IN
    IF baseUrl.k = "throw" THEN baseUrl
    ELSE IF service.t # "string" THEN Throw(NotCallable("toLowerCase", service))
    ELSE IF method.t # "string" THEN Throw(NotCallable("toUpperCase", method))
    ELSE Await("awaitFetch",
               FetchCall(baseUrl.result,
                         Str(<<"/","v","2","/">> \o toLowerCase(service.chars)),
                         Str(toUpperCase(method.chars)), token,
                         IF Truthy(request) THEN Json(request) ELSE Undefined))

\* simple and part_000: `const { service, method, request } = args;
\* const token = await getAccessToken();`
rest_make_api_request(args) ==
    IF IsNullish(args) THEN Throw(CannotDestructure)
    ELSE Await("awaitToken",
               [service |-> args.service, method |-> args.method,
                request |-> args.request])

\* simple: case 'get_service_info'
simple_get_service_info(args) ==
    IF IsNullish(args) THEN Throw(CannotDestructure)
    ELSE LET infoService == args.service IN
         IF infoService.t # "string"
             THEN Throw(NotCallable("toLowerCase", infoService))
         ELSE LET infoEndpoint ==
                      Get(serviceEndpoints, Str(toLowerCase(infoService.chars)))
              IN
              IF ~Truthy(infoEndpoint) THEN Throw(UnsupportedService(infoService))
              ELSE Return(TextContent(Json(
                       [service |-> infoService, endpoint |-> infoEndpoint])))

\* simple: case 'get_type_info'
simple_get_type_info(args) ==
    IF IsNullish(args) THEN Throw(CannotDestructure)
    ELSE LET typeService == args.service
             typeMethod == args.method
         IN
         IF typeService.t # "string"
             THEN Throw(NotCallable("toLowerCase", typeService))
             ELSE Return(TextContent(Json(
                      [service |-> typeService, method |-> typeMethod,
                       endpoint |-> Str(<<"/","v","2","/">> \o toLowerCase(typeService.chars))])))

\* part_000: case 'get_service_info'
basic_get_service_info(args) ==
    IF IsNullish(args) THEN Throw(CannotDestructure)
    ELSE LET infoService == args.service IN
         IF infoService.t # "string"
             THEN Throw(NotCallable("toLowerCase", infoService))
             ELSE Return(TextContent(Json(
                      [service |-> infoService,
                       endpoint |-> Str(<<"/","v","2","/">> \o toLowerCase(infoService.chars))])))

SimpleToolCall(name, args) ==
    CASE name = Lit("make_api_request") -> rest_make_api_request(args)
      [] name = Lit("get_service_info") -> simple_get_service_info(args)
      [] name = Lit("get_type_info") -> simple_get_type_info(args)
      [] OTHER -> Throw(UnknownTool(name))

BasicToolCall(name, args) ==
    CASE name = Lit("make_api_request") -> rest_make_api_request(args)
      [] name = Lit("get_service_info") -> basic_get_service_info(args)
      [] OTHER -> Throw(UnknownTool(name))

----------------------------------------------------------------------------
(* The POST /mcp handler *)

RpcResult(result, id) == [jsonrpc |-> "2.0", result |-> result, id |-> id]
RpcError(code, message, id) ==
    [jsonrpc |-> "2.0", error |-> [code |-> code, message |-> message], id |-> id]

\* res.status(status).json(json); res.json(json) is status 200
Respond(status, json) == [k |-> "respond", status |-> status, json |-> json]

\* a check that only asks for the field to be present
ValidEnvelopeAnyVersion(jsonrpc) == jsonrpc.t # "undefined"
\* if (jsonrpc !== '2.0')
ValidEnvelope(jsonrpc) == jsonrpc = Lit("2.0")

\* the envelope check's response
InvalidRequest(id) ==
    Respond(400, RpcError(-32600, Message("Invalid Request", <<>>), id))

\* a default branch that forgets res.status(400)
MethodNotFoundStatus200(id) ==
    [k |-> "respond", status |-> 200,
     json |-> [jsonrpc |-> "2.0",
               error |-> [code |-> -32601,
                          message |-> [template |-> "Method not found", parts |-> <<>>]],
               id |-> id]]
\* default: of switch (method)
MethodNotFound(id) ==
    Respond(400, RpcError(-32601, Message("Method not found", <<>>), id))

\* an outer catch that reads the destructured id, which is out of scope or
\* unset when the destructuring itself threw, and drops the message
InternalErrorBare(message, b) ==
    [k |-> "respond", status |-> 500,
     json |-> [jsonrpc |-> "2.0",
               error |-> [code |-> -32603,
                          message |-> [template |-> "Internal error", parts |-> <<>>]],
               id |-> [t |-> "undefined"]]]
\* the outer catch: id is req.body?.id
InternalError(message, b) ==
    Respond(500,
            [jsonrpc |-> "2.0",
             error |-> [code |-> -32603, message |-> Message("Internal error", <<>>),
                        data |-> message],
             id |-> IF IsNullish(b) THEN Undefined ELSE b.id])

\* a tools/call without the inner try: the failure reaches the outer catch
ToolErrorUncaught(message, id) ==
    [k |-> "respond", status |-> 500,
     json |-> [jsonrpc |-> "2.0",
               error |-> [code |-> -32603,
                          message |-> [template |-> "Internal error", parts |-> <<>>],
                          data |-> message],
               id |-> id]]
\* the inner catch of case 'tools/call'
ToolError(message, id) == Respond(200, RpcError(-32000, message, id))
\* return res.json({ jsonrpc: '2.0', result, id }) at the end of the inner try
ToolResult(result, id) == Respond(200, RpcResult(result, id))

\* a server that answers initialize with the protocol version the client sent
InitializeResultEcho(v) ==
    [protocolVersion |-> "client", serverInfo |-> "square-mcp-server"]
\* case 'initialize'
InitializeResult(v) ==
    [protocolVersion |-> "2024-11-05",
     serverInfo |-> IF v = "test" THEN "square-mcp-server-test" ELSE "square-mcp-server"]

\* case 'tools/list'
ToolsListResult(v) ==
    CASE v = "main" ->
            [tools |-> <<"make_api_request", "get_type_info", "get_service_info">>,
             services |-> [k \in 1..Len(ServiceKeys) |-> toLowerCase(ServiceKeys[k])]]
      [] v = "simple" ->
            [tools |-> <<"get_service_info", "get_type_info", "make_api_request">>,
             services |-> EndpointNames]
      [] v = "basic" ->
            [tools |-> <<"make_api_request", "get_service_info">>, services |-> <<>>]
      [] OTHER -> [tools |-> <<"test_tool">>, services |-> <<>>]

\* the inner try/catch around switch (name): a throw becomes a -32000 error,
\* a result is sent, an await suspends the request
InnerTry(o, id) ==
    CASE o.k = "throw" -> ToolError(o.message, id)
      [] o.k = "return" -> ToolResult(o.result, id)
      [] OTHER -> o

\* src/test-server.js: case 'tools/call' (no inner try)
TestToolsCall(name, args, b) ==
    IF name = Lit("test_tool")
        THEN IF IsNullish(args)
                 THEN InternalError(NotCallable("message", args), b)
                 ELSE ToolResult(
                          TextContent([template |-> "Test response: ${args.message}",
                                       parts |-> <<args.message>>]),
                          b.id)
        ELSE Respond(200, RpcError(-32601, Message("Method not found", <<>>), b.id))

\* case 'tools/call'
ToolsCall(v, b, e) ==
    IF IsNullish(b.params) THEN InternalError(CannotDestructure, b)
    ELSE LET name == b.params.name
             args == b.params.arguments
         IN
         CASE v = "main" -> InnerTry(ToolCall(name, args, e), b.id)
           [] v = "simple" -> InnerTry(SimpleToolCall(name, args), b.id)
           [] v = "basic" -> InnerTry(BasicToolCall(name, args), b.id)
           [] OTHER -> TestToolsCall(name, args, b)

\* app.post('/mcp', ...) from its first line to its first await or response
PostHandler(v, b, e) ==
    IF IsNullish(b) THEN InternalError(CannotDestructure, b)
    ELSE IF ~ValidEnvelope(b.jsonrpc) THEN InvalidRequest(b.id)
    ELSE CASE b.method = Lit("initialize") ->
                 Respond(200, RpcResult(InitializeResult(v), b.id))
           [] b.method = Lit("tools/list") ->
                 Respond(200, RpcResult(ToolsListResult(v), b.id))
           [] b.method = Lit("tools/call") -> ToolsCall(v, b, e)
           [] OTHER -> MethodNotFound(b.id)

----------------------------------------------------------------------------
(* What the awaited collaborators may do *)

Resolve(value) == [k |-> "resolve", value |-> value]
Reject(message) == [k |-> "reject", message |-> message]

\* handler(token, request || {}): a service handler is downstream code and
\* may resolve or reject; it is typed Promise<unknown>, so the value it
\* resolves with is a text or some other payload; a function inherited from
\* Object.prototype is called with `this` undefined
HandlerOutcomes(call) ==
    IF call.fn.class = "handler"
        THEN { Resolve(Lit("downstream response text")),
               Resolve(PlainObject({"objects"})),
               Reject(Message("downstream failure", <<>>)) }
    ELSE IF call.fn.name = s_constructor
        THEN { Resolve([t |-> "object", class |-> "String", value |-> call.token]) }
    ELSE IF call.fn.name = s_toString
        THEN { Resolve(Lit("[object Undefined]")) }
    ELSE IF call.fn.name = s_isPrototypeOf
        THEN { Resolve(Bool(FALSE)) }
    ELSE { Reject(Message("TypeError: Cannot convert undefined or null to object", <<>>)) }

\* fetch(url, init) of node-fetch: a request that cannot be built (the url
\* or the method is no string, or a GET/HEAD request has a body) is
\* rejected without a network call; else the network decides
FetchSendable(call) ==
    /\ call.path.t = "string"
    /\ call.method.t = "string"
    /\ ~(call.body # Undefined
         /\ call.method \in {Str(<<"G","E","T">>), Str(<<"H","E","A","D">>)})
FetchOutcomes(call) ==
    IF FetchSendable(call)
        THEN { Reject(Message("fetch failed", <<>>)),
               Resolve([ok |-> TRUE]), Resolve([ok |-> FALSE]) }
        ELSE { Reject(Message("TypeError: fetch", <<>>)) }

\* response.text()
TextOutcomes ==
    { Resolve(Lit("downstream response text")),
      Reject(Message("body stream failure", <<>>)) }

----------------------------------------------------------------------------
(* Requests *)

Variants == {"main", "simple", "basic", "test"}

\* process.env as the servers read it
Envs ==
    [DISALLOW_WRITES : {Undefined, Lit("true"), Lit("false")},
     ACCESS_TOKEN : {Undefined, Lit("token")},
     SANDBOX : {Undefined, Lit("true")},
     PRODUCTION : {Undefined, Lit("true")}]

Ids == {Lit("1"), Undefined}

ServiceArgs ==
    { Str(s_catalog), Str(s_Catalog), Str(s_applepay), Str(s_customers),
      Str(s_bogus), Str(s_proto), Num(7), Undefined }
MethodArgs ==
    { Str(s_list), Str(s_create), Str(s_delete), Str(s_List), Str(s_bogus),
      Str(s_constructor), Str(s_valueOf), Undefined }
RequestArgs ==
    { Undefined, Null, Bool(FALSE), Num(7), PlainObject({}), PlainObject({"limit"}) }

Args(service, method, request, message) ==
    [t |-> "object", class |-> "Object", service |-> service, method |-> method,
     request |-> request, message |-> message]
Params(name, args) ==
    [t |-> "object", class |-> "Object", name |-> name, arguments |-> args]
Body(jsonrpc, method, params, id) ==
    [t |-> "object", class |-> "Object", jsonrpc |-> jsonrpc, method |-> method,
     params |-> params, id |-> id]

\* params of tools/call requests
ToolCallParams ==
    {Undefined}
    \cup { Params(Lit("make_api_request"), Args(sv, m, r, Undefined)) :
               sv \in ServiceArgs, m \in MethodArgs, r \in RequestArgs }
    \cup { Params(Lit("get_type_info"), Args(sv, m, Undefined, Undefined)) :
               sv \in ServiceArgs, m \in MethodArgs }
    \cup { Params(Lit("get_service_info"), Args(sv, Undefined, Undefined, Undefined)) :
               sv \in ServiceArgs }
    \cup { Params(n, a) :
               n \in { Lit("make_api_request"), Lit("get_type_info"),
                       Lit("get_service_info"), Lit("test_tool"),
                       Lit("unknown_tool"), Undefined },
               a \in { Undefined,
                       Args(Undefined, Undefined, Undefined, Lit("hello")) } }

SampleParams ==
    { Undefined,
      Params(Lit("make_api_request"),
             Args(Str(s_catalog), Str(s_create), PlainObject({"limit"}), Undefined)) }

\* req.body after express.json(): absent, or the parsed JSON object
Bodies ==
    {Undefined}
    \cup { Body(Lit("2.0"), Lit("tools/call"), p, id) : p \in ToolCallParams, id \in Ids }
    \cup { Body(j, m, p, id) :
               j \in { Lit("2.0"), Lit("1.0"), Num(2), Undefined },
               m \in { Lit("initialize"), Lit("tools/list"), Lit("tools/call"),
                       Lit("resources/list"), Undefined },
               p \in SampleParams, id \in Ids }

\* the in-flight requests of the sequential specification
SeqSlots == {"r1"}

None == [t |-> "none"]

----------------------------------------------------------------------------
(* Actions *)

InitOn(slots) ==
    /\ variant \in Variants
    /\ env \in Envs
    /\ pc = [i \in slots |-> "idle"]
    /\ body = [i \in slots |-> None]
    /\ pending = [i \in slots |-> None]
    /\ responses = [i \in slots |-> <<>>]
    /\ calls = [i \in slots |-> <<>>]
    /\ reads = [i \in slots |-> {}]
    /\ outcomes = [i \in slots |-> <<>>]

Init == InitOn(SeqSlots)

\* what a step of request i's handler does with its outcome o: write the
\* response, or suspend at the await
Continue(i, o) ==
    IF o.k = "respond"
        THEN /\ responses' = [responses EXCEPT ![i] = Append(@, [status |-> o.status, json |-> o.json])]
             /\ pc' = [pc EXCEPT ![i] = "done"]
             /\ pending' = [pending EXCEPT ![i] = None]
             /\ UNCHANGED calls
        ELSE /\ pc' = [pc EXCEPT ![i] = o.next]
             /\ pending' = [pending EXCEPT ![i] = o.locals]
             /\ calls' = IF o.next \in {"awaitHandler", "awaitFetch"}
                             THEN [calls EXCEPT ![i] = Append(@, o.locals)]
                             ELSE calls
             /\ UNCHANGED responses

\* whether the handler, from its first line to its first await or response,
\* evaluates serviceMethodsMap: the tools/list description of http-server.ts
\* lists Object.keys(serviceMethodsMap), and each of its three tools indexes
\* serviceMethodsMap once service.charAt(0) has been evaluated
ReadsRegistry(v, b) ==
    /\ v = "main"
    /\ ~IsNullish(b)
    /\ ValidEnvelope(b.jsonrpc)
    /\ \/ b.method = Lit("tools/list")
       \/ /\ b.method = Lit("tools/call")
          /\ ~IsNullish(b.params)
          /\ b.params.name \in { Lit("make_api_request"), Lit("get_type_info"),
                                 Lit("get_service_info") }
          /\ ~IsNullish(b.params.arguments)
          /\ b.params.arguments.service.t = "string"

\* a POST /mcp request with one of `bodies` arrives and its handler runs to
\* its first await or to its response
PostMcpFrom(i, bodies) ==
    /\ pc[i] = "idle"
    /\ \E b \in bodies :
           /\ body' = [body EXCEPT ![i] = b]
           /\ reads' = [reads EXCEPT ![i] =
                            IF ReadsRegistry(variant, b) THEN {"registry"} ELSE {}]
           /\ Continue(i, PostHandler(variant, b, env))
    /\ UNCHANGED <<variant, env, outcomes>>

PostMcp(i) == PostMcpFrom(i, Bodies)

\* a dispatcher that passes `request ?? {}`
InvokeHandlerNullish(locals, e) ==
    [k |-> "await", next |-> "awaitHandler",
     locals |-> [fn |-> locals.handler, token |-> getAccessToken(e),
                 arg |-> IF locals.request.t \in {"undefined", "null"}
                             THEN [t |-> "object", class |-> "Object", keys |-> {}]
                             ELSE locals.request]]
\* http-server.ts after `await getAccessToken()`: handler(token, request || {})
InvokeHandler(locals, e) ==
    Await("awaitHandler",
          [fn |-> locals.handler, token |-> getAccessToken(e),
           arg |-> IF Truthy(locals.request) THEN locals.request ELSE PlainObject({})])

\* `await getAccessToken()` resolves
TokenResolved(i) ==
    /\ pc[i] = "awaitToken"
    /\ Continue(i,
           CASE variant = "main" -> InvokeHandler(pending[i], env)
             [] variant = "simple" ->
                    InnerTry(simple_make_api_request(pending[i], env), body[i].id)
             [] OTHER ->
                    InnerTry(basic_make_api_request(pending[i], env), body[i].id))
    /\ reads' = [reads EXCEPT ![i] = @ \cup {"credential"}]
    /\ UNCHANGED <<variant, env, body, outcomes>>

\* a dispatcher that renders the handler's value before sending it
AfterHandlerRendered(call, o, id) ==
    IF o.k = "resolve"
        THEN Respond(200, RpcResult([content |-> <<[type |-> "text",
                                                    text |-> [t |-> "json", of |-> o.value]]>>], id))
        ELSE Respond(200, RpcError(-32000, o.message, id))
\* a dispatcher that hides the handler's failure behind a message of its own
AfterHandlerMasked(call, o, id) ==
    IF o.k = "resolve"
        THEN Respond(200, RpcResult([content |-> <<[type |-> "text", text |-> o.value]>>], id))
        ELSE Respond(200, RpcError(-32000, [template |-> "Request failed", parts |-> <<>>], id))
\* a dispatcher that calls the handler again when it fails
AfterHandlerRetry(call, o, id) ==
    IF o.k = "resolve"
        THEN Respond(200, RpcResult([content |-> <<[type |-> "text", text |-> o.value]>>], id))
        ELSE [k |-> "await", next |-> "awaitHandler", locals |-> call]
\* `await handler(token, request || {})` settles
AfterHandler(call, o, id) ==
    IF o.k = "resolve"
        THEN ToolResult(TextContent(o.value), id)
        ELSE ToolError(o.message, id)

\* a handler that keeps the id in a variable of the module, which every
\* arriving request overwrites: the id sent is that of some request at hand
HandlerSettlesSharedId(i) ==
    /\ pc[i] = "awaitHandler"
    /\ \E o \in HandlerOutcomes(pending[i]) :
       \E j \in DOMAIN pc :
           /\ pc[j] # "idle"
           /\ outcomes' = [outcomes EXCEPT ![i] = Append(@, o)]
           /\ Continue(i, AfterHandler(pending[i], o, body[j].id))
    /\ UNCHANGED <<variant, env, body, reads>>
HandlerSettles(i) ==
    /\ pc[i] = "awaitHandler"
    /\ \E o \in HandlerOutcomes(pending[i]) :
           /\ outcomes' = [outcomes EXCEPT ![i] = Append(@, o)]
           /\ Continue(i, AfterHandler(pending[i], o, body[i].id))
    /\ UNCHANGED <<variant, env, body, reads>>

\* `await fetch(url, ...)` settles
AfterFetch(o, id) ==
    IF o.k = "resolve"
        THEN Await("awaitText", o.value)
        ELSE ToolError(o.message, id)

FetchSettles(i) ==
    /\ pc[i] = "awaitFetch"
    /\ \E o \in FetchOutcomes(pending[i]) :
           /\ outcomes' = [outcomes EXCEPT ![i] = Append(@, o)]
           /\ Continue(i, AfterFetch(o, body[i].id))
    /\ UNCHANGED <<variant, env, body, reads>>

\* `await response.text()` settles, then `if (!response.ok) throw ...`
AfterText(response, o, id) ==
    IF o.k = "reject" THEN ToolError(o.message, id)
    ELSE IF ~response.ok
        THEN ToolError(Message("Square API error: ${status} ${statusText} - ${responseText}",
                               <<o.value>>), id)
        ELSE ToolResult(TextContent(o.value), id)

TextSettles(i) ==
    /\ pc[i] = "awaitText"
    /\ \E o \in TextOutcomes :
           /\ outcomes' = [outcomes EXCEPT ![i] = Append(@, o)]
           /\ Continue(i, AfterText(pending[i], o, body[i].id))
    /\ UNCHANGED <<variant, env, body, reads>>

\* the response is written: the request's state is dropped
Finish(i) ==
    /\ pc[i] = "done"
    /\ pc' = [pc EXCEPT ![i] = "idle"]
    /\ body' = [body EXCEPT ![i] = None]
    /\ pending' = [pending EXCEPT ![i] = None]
    /\ responses' = [responses EXCEPT ![i] = <<>>]
    /\ calls' = [calls EXCEPT ![i] = <<>>]
    /\ reads' = [reads EXCEPT ![i] = {}]
    /\ outcomes' = [outcomes EXCEPT ![i] = <<>>]
    /\ UNCHANGED <<variant, env>>

Next ==
    \E i \in SeqSlots :
        \/ PostMcp(i)
        \/ TokenResolved(i)
        \/ HandlerSettles(i)
        \/ FetchSettles(i)
        \/ TextSettles(i)
        \/ Finish(i)

Spec == Init /\ [][Next]_vars

----------------------------------------------------------------------------
(* Several requests in flight: Node runs each async handler up to its next *)
(* await and lets the handlers of other requests run in between.           *)

MaxInFlight == 2
ConcSlots == 1..MaxInFlight

ConcEnvs ==
    { e \in Envs : /\ e.DISALLOW_WRITES = Undefined
                   /\ e.SANDBOX = Undefined /\ e.PRODUCTION = Undefined }
ConcIds == {Lit("1"), Lit("2")}
ConcParams ==
    { Params(Lit("make_api_request"),
             Args(Str(s_catalog), Str(s_list), PlainObject({"limit"}), Undefined)),
      Params(Lit("unknown_tool"), Undefined) }
ConcBodies ==
    { Body(Lit("2.0"), Lit("tools/call"), p, id) : p \in ConcParams, id \in ConcIds }
    \cup { Body(Lit("2.0"), Lit("tools/list"), Undefined, Lit("1")) }

InitConc ==
    /\ InitOn(ConcSlots)
    /\ env \in ConcEnvs

PostMcpConc(i) == PostMcpFrom(i, ConcBodies)

NextConc ==
    \E i \in ConcSlots :
        \/ PostMcpConc(i)
        \/ TokenResolved(i)
        \/ HandlerSettles(i)
        \/ FetchSettles(i)
        \/ TextSettles(i)
        \/ Finish(i)

SpecConc == InitConc /\ [][NextConc]_vars

----------------------------------------------------------------------------
(* Properties *)

Requests == DOMAIN pc
HasBody(i) == body[i] # None /\ ~IsNullish(body[i])
Answered(i) == pc[i] = "done"
Response(i) == responses[i][1]
IsError(r) == "error" \in DOMAIN r.json
IsResult(r) == "result" \in DOMAIN r.json /\ r.json.result # Undefined

\* request i is tools/call with a valid envelope and a params object
IsToolsCall(i) ==
    /\ HasBody(i)
    /\ body[i].jsonrpc = Lit("2.0")
    /\ body[i].method = Lit("tools/call")
    /\ ~IsNullish(body[i].params)
\* request i calls tool `name` with an arguments object
CallsTool(i, name) ==
    /\ IsToolsCall(i)
    /\ body[i].params.name = Lit(name)
    /\ ~IsNullish(body[i].params.arguments)
ArgsOf(i) == body[i].params.arguments

\* the first-letter-capitalized form of a service name
Canonical(s) == IF s = <<>> THEN s ELSE <<UpperChar(s[1])>> \o Tail(s)
\* request i is make_api_request for a service name whose canonical form is
\* a registry key and a method name of that service's table
NamesRegisteredPair(i) ==
    /\ CallsTool(i, "make_api_request")
    /\ ArgsOf(i).service.t = "string"
    /\ ArgsOf(i).method.t = "string"
    /\ Canonical(ArgsOf(i).service.chars) \in Range(ServiceKeys)
    /\ ArgsOf(i).method.chars \in Range(MethodNames(Canonical(ArgsOf(i).service.chars)))
KeyOf(i) == Canonical(ArgsOf(i).service.chars)
MethodOf(i) == ArgsOf(i).method.chars

\* C1: a request whose body carries a jsonrpc field other than "2.0" (or
\* none) is answered at once with HTTP 400 and error -32600 "Invalid
\* Request", echoing its id, whatever its method and params, in every server
\* variant; no handler and no downstream call is made for it.
C1_InvalidEnvelope ==
    \A i \in Requests :
        (HasBody(i) /\ body[i].jsonrpc # Lit("2.0")) =>
            /\ Answered(i)
            /\ responses[i] =
                   << [status |-> 400,
                       json |-> RpcError(-32600, Message("Invalid Request", <<>>),
                                         body[i].id)] >>
            /\ calls[i] = <<>>

C1_Witness ==
    \E i \in Requests :
        /\ Answered(i) /\ HasBody(i)
        /\ body[i].jsonrpc = Lit("1.0")
        /\ body[i].method = Lit("tools/call")
        /\ body[i].params # Undefined
        /\ Response(i).status = 400

\* C2: in http-server.ts, make_api_request for a registered write method is
\* refused when DISALLOW_WRITES is "true": the answer is error -32000 whose
\* message is the write-refusal text with the caller's service and method,
\* and no handler is called.  With any other value of DISALLOW_WRITES the
\* request goes on to that method's handler.
C2_WriteGate ==
    \A i \in Requests :
        (variant = "main" /\ NamesRegisteredPair(i) /\ IsWriteMethod(KeyOf(i), MethodOf(i))) =>
            IF env.DISALLOW_WRITES = Lit("true")
                THEN /\ Answered(i)
                     /\ responses[i] =
                            << [status |-> 200,
                                json |-> RpcError(-32000,
                                                  WriteDisallowed(ArgsOf(i).service,
                                                                  ArgsOf(i).method),
                                                  body[i].id)] >>
                     /\ calls[i] = <<>>
                ELSE /\ pc[i] = "awaitToken" \/ Len(calls[i]) = 1
                     /\ Len(calls[i]) = 1 =>
                            calls[i][1].fn = HandlerFn(KeyOf(i), MethodOf(i))

C2_Witness ==
    \E i \in Requests :
        /\ variant = "main" /\ NamesRegisteredPair(i)
        /\ ArgsOf(i).service = Str(s_catalog) /\ ArgsOf(i).method = Str(s_create)
        /\ env.DISALLOW_WRITES = Lit("true")
        /\ Answered(i)
        /\ Response(i).json.error.message.parts = <<Str(s_catalog), Str(s_create)>>

ErrorCode(r) == IF IsError(r) THEN r.json.error.code ELSE 0
ErrorMessage(r) == r.json.error.message
RestVariants == {"main", "simple", "basic"}

\* C3 as stated: every tools/call request with a valid envelope is answered
\* with HTTP 200 and either a result or error -32000 (http-server.ts and
\* http-server-simple.ts).
C3_AsStated ==
    \A i \in Requests :
        ( /\ variant \in {"main", "simple"}
          /\ HasBody(i)
          /\ body[i].jsonrpc = Lit("2.0")
          /\ body[i].method = Lit("tools/call")
          /\ Answered(i) ) =>
            /\ Response(i).status = 200
            /\ IsResult(Response(i)) \/ ErrorCode(Response(i)) = -32000

\* C3, amended: a tools/call request with a valid envelope and a params
\* object is answered with HTTP 200 and either a result or error -32000,
\* never with 400/500 or -32603; an unknown tool is reported by name and
\* absent tool arguments by the destructuring failure's own message.
C3_ToolFailures ==
    \A i \in Requests :
        (variant \in RestVariants /\ IsToolsCall(i) /\ Answered(i)) =>
            LET r == Response(i)
                name == body[i].params.name
                args == body[i].params.arguments
            IN
            /\ r.status = 200
            /\ IsResult(r) # IsError(r)
            /\ IsError(r) => ErrorCode(r) = -32000
            /\ name \in {Lit("unknown_tool"), Lit("test_tool"), Undefined} =>
                   IsError(r) /\ ErrorMessage(r) = UnknownTool(name)
            /\ (name \in {Lit("make_api_request"), Lit("get_service_info")}
                    /\ IsNullish(args)) =>
                   IsError(r) /\ ErrorMessage(r) = CannotDestructure

C3_Witness ==
    \E i \in Requests :
        /\ variant = "main" /\ IsToolsCall(i) /\ Answered(i)
        /\ body[i].params.name = Lit("make_api_request")
        /\ body[i].params.arguments = Undefined
        /\ Response(i).status = 200
        /\ ErrorCode(Response(i)) = -32000

\* C4: in http-server.ts, make_api_request for a service name whose
\* first-letter-capitalized form is no registry key is answered with the
\* unknown-service error (-32000, HTTP 200), and no handler is called.
C4_UnknownService ==
    \A i \in Requests :
        ( /\ variant = "main"
          /\ CallsTool(i, "make_api_request")
          /\ ArgsOf(i).service.t = "string"
          /\ Canonical(ArgsOf(i).service.chars) \notin Range(ServiceKeys) ) =>
            /\ Answered(i)
            /\ responses[i] =
                   << [status |-> 200,
                       json |-> RpcError(-32000, InvalidService(ArgsOf(i).service),
                                         body[i].id)] >>
            /\ calls[i] = <<>>

\* C5: in http-server.ts, make_api_request for a registered service and a
\* method name that is no key of that service's method table is answered
\* with the unknown-method error (-32000, HTTP 200) listing exactly that
\* service's method names, and no handler is called.
C5_UnknownMethod ==
    \A i \in Requests :
        ( /\ variant = "main"
          /\ CallsTool(i, "make_api_request")
          /\ ArgsOf(i).service.t = "string"
          /\ ArgsOf(i).method.t = "string"
          /\ KeyOf(i) \in Range(ServiceKeys)
          /\ MethodOf(i) \notin Range(MethodNames(KeyOf(i))) ) =>
            /\ Answered(i)
            /\ responses[i] =
                   << [status |-> 200,
                       json |-> RpcError(-32000,
                                         Message("Invalid method ${method} for service ${service}. Available methods: ${keys}",
                                                 <<ArgsOf(i).method, ArgsOf(i).service,
                                                   Json(MethodNames(KeyOf(i)))>>),
                                         body[i].id)] >>
            /\ calls[i] = <<>>

EmptyRequest(i) == ArgsOf(i).request \in {Undefined, PlainObject({})}
HandlerSucceeded(r) ==
    /\ IsResult(r)
    /\ r.json.result \in { TextContent(Lit("downstream response text")),
                           TextContent(PlainObject({"objects"})) }
HandlerFailed(r) ==
    IsError(r) /\ ErrorMessage(r) = Message("downstream failure", <<>>)

\* C6 as stated: make_api_request for a registered (service, method) pair
\* with an empty request is answered with the handler's success or with the
\* handler's own failure, and with nothing else.
C6_AsStated ==
    \A i \in Requests :
        (variant = "main" /\ NamesRegisteredPair(i) /\ EmptyRequest(i) /\ Answered(i)) =>
            HandlerSucceeded(Response(i)) \/ HandlerFailed(Response(i))

\* C6, amended: make_api_request for a registered (service, method) pair
\* with an empty request reaches that pair's handler and is answered with
\* the handler's success or the handler's own failure, unless writes are
\* disabled and the method is a write, when it is answered with the
\* write-refusal; it is never answered with the unknown-service,
\* unknown-method or missing-handler error.
C6_RegisteredPair ==
    \A i \in Requests :
        (variant = "main" /\ NamesRegisteredPair(i) /\ EmptyRequest(i)) =>
            IF env.DISALLOW_WRITES = Lit("true")
                   /\ IsWriteMethod(KeyOf(i), MethodOf(i))
                THEN /\ Answered(i)
                     /\ ErrorMessage(Response(i)) =
                            WriteDisallowed(ArgsOf(i).service, ArgsOf(i).method)
                ELSE /\ pc[i] \in {"awaitToken", "awaitHandler", "done"}
                     /\ pc[i] # "awaitToken" =>
                            /\ Len(calls[i]) = 1
                            /\ calls[i][1].fn = HandlerFn(KeyOf(i), MethodOf(i))
                            /\ calls[i][1].arg = PlainObject({})
                     /\ Answered(i) =>
                            HandlerSucceeded(Response(i)) \/ HandlerFailed(Response(i))

C6_Witness ==
    \E i \in Requests :
        /\ variant = "main" /\ NamesRegisteredPair(i) /\ EmptyRequest(i)
        /\ ArgsOf(i).service = Str(s_customers) /\ ArgsOf(i).method = Str(s_list)
        /\ Answered(i)
        /\ HandlerFailed(Response(i))

\* C7: the HTTP status of a response is 200 exactly when it is a result or
\* an error -32000, 400 exactly when its error code is -32600 or -32601, and
\* 500 exactly when its error code is -32603, in every server variant.
C7_StatusSeparates ==
    \A i \in Requests :
        Answered(i) =>
            LET r == Response(i) IN
            /\ r.status \in {200, 400, 500}
            /\ r.status = 200 <=> (IsResult(r) \/ ErrorCode(r) = -32000)
            /\ r.status = 400 <=> ErrorCode(r) \in {-32600, -32601}
            /\ r.status = 500 <=> ErrorCode(r) = -32603

\* C8: a request has at most one response, and has it exactly when its
\* handler has run to its end; the response carries the request's id and
\* exactly one of result and error, an error code is one of -32600, -32601,
\* -32000, -32603, and at most one handler (or downstream) call is made for
\* the request.
C8_OneResponse ==
    \A i \in Requests :
        /\ Len(responses[i]) <= 1
        /\ Answered(i) <=> Len(responses[i]) = 1
        /\ Len(calls[i]) <= 1
        /\ Answered(i) =>
               LET r == Response(i) IN
               /\ r.json.id = IF IsNullish(body[i]) THEN Undefined ELSE body[i].id
               /\ IsResult(r) # IsError(r)
               /\ IsError(r) => ErrorCode(r) \in {-32600, -32601, -32000, -32603}

C8_Witness ==
    \E i \in Requests :
        /\ variant = "main" /\ Answered(i) /\ NamesRegisteredPair(i)
        /\ body[i].id = Lit("1")
        /\ Len(calls[i]) = 1
        /\ HandlerFailed(Response(i))
        /\ Response(i).json.id = Lit("1")

\* C9: a request with a valid envelope whose method is none of initialize,
\* tools/list, tools/call (or is absent) is answered with HTTP 400 and error
\* -32601 "Method not found", and no handler is called.
C9_MethodNotFound ==
    \A i \in Requests :
        ( /\ HasBody(i)
          /\ body[i].jsonrpc = Lit("2.0")
          /\ body[i].method \notin
                 {Lit("initialize"), Lit("tools/list"), Lit("tools/call")} ) =>
            /\ Answered(i)
            /\ responses[i] =
                   << [status |-> 400,
                       json |-> RpcError(-32601, Message("Method not found", <<>>),
                                         body[i].id)] >>
            /\ calls[i] = <<>>

C9_Witness ==
    \E i \in Requests :
        /\ HasBody(i) /\ Answered(i)
        /\ body[i].jsonrpc = Lit("2.0")
        /\ body[i].method = Undefined
        /\ Response(i).status = 400

\* request i throws outside the inner try: its body is absent, or it is a
\* tools/call without params
ThrowsOutside(i) ==
    \/ body[i] # None /\ IsNullish(body[i])
    \/ /\ HasBody(i)
       /\ body[i].jsonrpc = Lit("2.0")
       /\ body[i].method = Lit("tools/call")
       /\ IsNullish(body[i].params)

\* C10: a request whose handling throws outside the tools/call catch (an
\* absent body, a tools/call without params) is answered, with HTTP 500 and
\* error -32603 "Internal error" whose data is the exception's message and
\* whose id is the body's id when there is a body.
C10_InternalError ==
    \A i \in Requests :
        ThrowsOutside(i) =>
            /\ Answered(i)
            /\ responses[i] =
                   << [status |-> 500,
                       json |-> [jsonrpc |-> "2.0",
                                 error |-> [code |-> -32603,
                                            message |-> Message("Internal error", <<>>),
                                            data |-> CannotDestructure],
                                 id |-> IF IsNullish(body[i]) THEN Undefined
                                        ELSE body[i].id]] >>
            /\ calls[i] = <<>>

C10_Witness ==
    \E i \in Requests :
        /\ variant = "main" /\ HasBody(i) /\ ThrowsOutside(i) /\ Answered(i)
        /\ body[i].id = Lit("1")
        /\ Response(i).status = 500
        /\ Response(i).json.id = Lit("1")

\* request i is an initialize or a tools/list request with a valid envelope
IsStatic(i) ==
    /\ HasBody(i)
    /\ body[i].jsonrpc = Lit("2.0")
    /\ body[i].method \in {Lit("initialize"), Lit("tools/list")}

\* the names of the tools that tools/list advertises
ToolNames(v) ==
    CASE v = "main" -> <<"make_api_request", "get_type_info", "get_service_info">>
      [] v = "simple" -> <<"get_service_info", "get_type_info", "make_api_request">>
      [] v = "basic" -> <<"make_api_request", "get_service_info">>
      [] OTHER -> <<"test_tool">>

\* C11 as stated: initialize and tools/list (valid envelope, any params and
\* id) are answered with HTTP 200 and a result, and their handling reads
\* neither the service registry nor the credential.
C11_AsStated ==
    \A i \in Requests :
        IsStatic(i) =>
            /\ Answered(i)
            /\ Response(i).status = 200
            /\ IsResult(Response(i))
            /\ reads[i] = {}

\* C11, amended: initialize and tools/list with a valid envelope are answered
\* at once with HTTP 200 and a result that depends on nothing in the request
\* but the echoed id; no handler is called and the credential is never read;
\* initialize reads nothing of the registry, and tools/list reads it only in
\* http-server.ts, for the service names of the make_api_request description.
C11_StaticMethods ==
    \A i \in Requests :
        IsStatic(i) =>
            /\ Answered(i)
            /\ calls[i] = <<>>
            /\ "credential" \notin reads[i]
            /\ reads[i] # {} => variant = "main" /\ body[i].method = Lit("tools/list")
            /\ Len(responses[i]) = 1
            /\ Response(i).status = 200
            /\ Response(i).json.id = body[i].id
            /\ IsResult(Response(i)) /\ ~IsError(Response(i))
            /\ IF body[i].method = Lit("initialize")
                   THEN Response(i).json.result =
                            [protocolVersion |-> "2024-11-05",
                             serverInfo |-> IF variant = "test"
                                                THEN "square-mcp-server-test"
                                                ELSE "square-mcp-server"]
                   ELSE /\ Response(i).json.result.tools = ToolNames(variant)
                        /\ Response(i).json.result = ToolsListResult(variant)

C11_Witness ==
    \E i \in Requests :
        /\ variant = "main" /\ IsStatic(i) /\ Answered(i)
        /\ body[i].method = Lit("tools/list")
        /\ body[i].params # Undefined
        /\ body[i].id = Lit("1")
        /\ reads[i] = {"registry"}
        /\ Response(i).status = 200

\* UTF-16 code unit order of the letters, and the order of names it induces
CharCode(c) ==
    IF IndexIn(c, UpperChars) # 0 THEN 64 + IndexIn(c, UpperChars)
    ELSE IF IndexIn(c, LowerChars) # 0 THEN 96 + IndexIn(c, LowerChars)
    ELSE 0
RECURSIVE Before(_, _)
Before(a, b) ==
    IF a = <<>> THEN b # <<>>
    ELSE IF b = <<>> THEN FALSE
    ELSE IF a[1] = b[1] THEN Before(Tail(a), Tail(b))
    ELSE CharCode(a[1]) < CharCode(b[1])
IsSorted(names) == \A k \in 1..(Len(names) - 1) : Before(names[k], names[k + 1])

\* the response of request i is the unknown-service error of http-server.ts
IsUnknownServiceError(i) ==
    /\ variant = "main" /\ Answered(i)
    /\ IsError(Response(i))
    /\ ErrorMessage(Response(i)).template =
           "Invalid service: ${service}. Available services: ${keys}"
\* the candidate list of that error
Candidates(i) == ErrorMessage(Response(i)).parts[2].of

\* C12 as stated: the candidate list of the unknown-service error is the
\* registry's keys mapped to lower case, in sorted order.
C12_AsStated ==
    \A i \in Requests :
        IsUnknownServiceError(i) =>
            /\ Range(Candidates(i)) = {toLowerCase(K) : K \in Range(ServiceKeys)}
            /\ Len(Candidates(i)) = Len(ServiceKeys)
            /\ IsSorted(Candidates(i))

\* C12, amended: the unknown-service error of make_api_request, get_type_info
\* and get_service_info names the caller's service and carries every
\* registry key exactly as registered (capitalized, not lower-cased), once
\* each, in the registry's own order, which is ascending.
C12_CandidateList ==
    \A i \in Requests :
        IsUnknownServiceError(i) =>
            /\ ErrorCode(Response(i)) = -32000
            /\ ErrorMessage(Response(i)).parts[1] = ArgsOf(i).service
            /\ Candidates(i) = ServiceKeys
            /\ IsSorted(Candidates(i))
            /\ \A k \in 1..Len(Candidates(i)) :
                   Candidates(i)[k] = Capitalize(Candidates(i)[k])

C12_Witness ==
    \E i \in Requests :
        /\ IsUnknownServiceError(i)
        /\ CallsTool(i, "get_type_info")
        /\ ArgsOf(i).service = Str(s_applepay)
        /\ s_applepay \notin Range(Candidates(i))
        /\ toUpperCase(<<"a">>) \o Tail(s_applepay) \notin Range(Candidates(i))

\* the tool names that the switch (name) of each variant handles
HandledTools(v) ==
    CASE v = "main" ->
            {Lit("make_api_request"), Lit("get_type_info"), Lit("get_service_info")}
      [] v = "simple" ->
            {Lit("make_api_request"), Lit("get_type_info"), Lit("get_service_info")}
      [] v = "basic" -> {Lit("make_api_request"), Lit("get_service_info")}
      [] OTHER -> {Lit("test_tool")}

\* C13: a tools/call request (valid envelope, params present) whose tool name
\* is none of the tools its server handles, or is absent, is answered with
\* HTTP 200 and error -32000 "Unknown tool: <name>", in every server variant,
\* and no handler is called.
C13_UnknownTool ==
    \A i \in Requests :
        (IsToolsCall(i) /\ body[i].params.name \notin HandledTools(variant)) =>
            /\ Answered(i)
            /\ responses[i] =
                   << [status |-> 200,
                       json |-> RpcError(-32000,
                                         Message("Unknown tool: ${name}",
                                                 <<body[i].params.name>>),
                                         body[i].id)] >>
            /\ calls[i] = <<>>

\* C13 holds of the three servers that have the inner try
C13_UnknownToolRest ==
    variant \in RestVariants => C13_UnknownTool

\* the configured access token: process.env.ACCESS_TOKEN, or the empty string
\* when none is configured
ConfiguredToken ==
    IF env.ACCESS_TOKEN = Undefined THEN Lit("") ELSE env.ACCESS_TOKEN

\* C14: the credential passed to a handler (or sent downstream) is the access
\* token configured for the process, the empty string when none is
\* configured; it is read from the process configuration for that request
\* and never from the request's payload.
C14_Credential ==
    \A i \in Requests :
        \A k \in 1..Len(calls[i]) :
            /\ calls[i][k].token = ConfiguredToken
            /\ calls[i][k].token \in {Lit(""), Lit("token")}
            /\ "credential" \in reads[i]

C14_Witness ==
    \E i \in Requests :
        /\ variant = "main" /\ NamesRegisteredPair(i)
        /\ ArgsOf(i).request = PlainObject({"limit"})
        /\ env.ACCESS_TOKEN = Undefined
        /\ Len(calls[i]) = 1
        /\ calls[i][1].fn = HandlerFn(s_Catalog, s_list)
        /\ calls[i][1].token = Lit("")

\* request i calls one of the three tools of http-server.ts with the
\* lower-cased form of a registry key as its service
NamesLowerCasedKey(i) ==
    /\ variant = "main"
    /\ IsToolsCall(i)
    /\ body[i].params.name \in HandledTools("main")
    /\ ~IsNullish(ArgsOf(i))
    /\ ArgsOf(i).service.t = "string"
    /\ \E K \in Range(ServiceKeys) : ArgsOf(i).service.chars = toLowerCase(K)
\* the registry key whose lower-cased form request i names
LowerCasedKeyOf(i) ==
    CHOOSE K \in Range(ServiceKeys) : ArgsOf(i).service.chars = toLowerCase(K)

\* C15: make_api_request, get_type_info and get_service_info called with the
\* lower-cased form of a registry key K (the form the tools/list description
\* advertises) resolve to service K: the request is never answered with the
\* unknown-service error, and get_service_info answers with K's methods.
C15_LowerCaseResolves ==
    \A i \in Requests :
        (NamesLowerCasedKey(i) /\ Answered(i)) =>
            /\ ~IsUnknownServiceError(i)
            /\ body[i].params.name = Lit("get_service_info") =>
                   /\ IsResult(Response(i))
                   /\ Response(i).json.result =
                          TextContent(Json([methods |-> MethodNames(LowerCasedKeyOf(i)),
                                            fields |-> {"description"}]))

\* C15 holds of the keys that have a single capital letter
C15_SingleWordKeys ==
    \A i \in Requests :
        (NamesLowerCasedKey(i) /\ Answered(i)
            /\ Capitalize(ArgsOf(i).service.chars) = LowerCasedKeyOf(i)) =>
            ~IsUnknownServiceError(i)

\* request i is a make_api_request of http-server.ts with string names
NamesPair(i) ==
    /\ variant = "main"
    /\ CallsTool(i, "make_api_request")
    /\ ArgsOf(i).service.t = "string"
    /\ ArgsOf(i).method.t = "string"
ServiceRegistered(i) == KeyOf(i) \in Range(ServiceKeys)
MethodRegistered(i) ==
    ServiceRegistered(i) /\ MethodOf(i) \in Range(MethodNames(KeyOf(i)))
WriteBarred(i) ==
    env.DISALLOW_WRITES = Lit("true") /\ IsWriteMethod(KeyOf(i), MethodOf(i))
Template(i) == ErrorMessage(Response(i)).template
NothingCalled(i) == calls[i] = <<>> /\ "credential" \notin reads[i]

\* C16: make_api_request checks the service, then the method, then the write
\* policy, then calls the handler, and the first failing check decides the
\* answer: an unknown service is answered with the unknown-service error and
\* an unknown method with the unknown-method error, also when writes are
\* disabled; a registered write method with writes disabled is answered with
\* the write refusal; in all three cases the credential is not read and no
\* handler is called; only a request that passes all three goes on to read
\* the credential and call the handler.
C16_CheckOrder ==
    \A i \in Requests :
        NamesPair(i) =>
            IF ~ServiceRegistered(i)
                THEN /\ Answered(i) /\ IsError(Response(i))
                     /\ Template(i) = "Invalid service: ${service}. Available services: ${keys}"
                     /\ NothingCalled(i)
            ELSE IF ~MethodRegistered(i)
                THEN /\ Answered(i) /\ IsError(Response(i))
                     /\ Template(i) = "Invalid method ${method} for service ${service}. Available methods: ${keys}"
                     /\ NothingCalled(i)
            ELSE IF WriteBarred(i)
                THEN /\ Answered(i) /\ IsError(Response(i))
                     /\ ErrorMessage(Response(i)) =
                            WriteDisallowed(ArgsOf(i).service, ArgsOf(i).method)
                     /\ NothingCalled(i)
            ELSE /\ pc[i] \in {"awaitToken", "awaitHandler", "done"}
                 /\ pc[i] # "awaitToken" =>
                        "credential" \in reads[i] /\ Len(calls[i]) = 1

\* a name that an ordinary object inherits from Object.prototype
Inherited(name) == name \in ObjectPrototypeFunctions \cup {s_proto}

\* C16 for names that no object inherits: the order of the checks as the
\* code makes them.  The write refusal is given only for a registered write
\* method, whatever the names.
C16_OrderOfChecks ==
    \A i \in Requests :
        /\ ( NamesPair(i) /\ ~Inherited(KeyOf(i)) /\ ~Inherited(MethodOf(i)) ) =>
               IF ~ServiceRegistered(i)
                   THEN /\ Answered(i)
                        /\ ErrorMessage(Response(i)) = InvalidService(ArgsOf(i).service)
                        /\ NothingCalled(i)
               ELSE IF ~MethodRegistered(i)
                   THEN /\ Answered(i)
                        /\ Template(i) = "Invalid method ${method} for service ${service}. Available methods: ${keys}"
                        /\ NothingCalled(i)
               ELSE IF WriteBarred(i)
                   THEN /\ Answered(i)
                        /\ ErrorMessage(Response(i)) =
                               WriteDisallowed(ArgsOf(i).service, ArgsOf(i).method)
                        /\ NothingCalled(i)
               ELSE /\ pc[i] \in {"awaitToken", "awaitHandler", "done"}
                    /\ pc[i] # "awaitToken" =>
                           "credential" \in reads[i] /\ Len(calls[i]) = 1
        /\ ( variant = "main" /\ Answered(i) /\ IsError(Response(i))
             /\ Template(i) = "Write operations are not allowed in this environment. Attempted operation: ${service}.${method}" ) =>
               NamesPair(i) /\ MethodRegistered(i) /\ WriteBarred(i)

\* how the last call awaited for request i settled
LastOutcome(i) == outcomes[i][Len(outcomes[i])]
Settled(i) == outcomes[i] # <<>>

\* C17: when the handler of http-server.ts rejects (or throws), and when the
\* downstream call of the REST variants fails, the request is answered with
\* HTTP 200 and error -32000 whose message is the failure's own message,
\* unchanged; it is answered with no result and with no other message, and
\* the handler is not called again.
C17_HandlerFailure ==
    \A i \in Requests :
        /\ ( variant \in RestVariants /\ Settled(i) /\ LastOutcome(i).k = "reject" ) =>
               /\ Answered(i)
               /\ responses[i] =
                      << [status |-> 200,
                          json |-> RpcError(-32000, LastOutcome(i).message, body[i].id)] >>
               /\ Len(calls[i]) = 1
        /\ ( variant \in {"simple", "basic"} /\ Len(outcomes[i]) = 2
             /\ LastOutcome(i).k = "resolve" /\ ~outcomes[i][1].value.ok ) =>
               /\ Answered(i)
               /\ responses[i] =
                      << [status |-> 200,
                          json |-> RpcError(-32000,
                                            Message("Square API error: ${status} ${statusText} - ${responseText}",
                                                    <<LastOutcome(i).value>>),
                                            body[i].id)] >>

C17_Witness ==
    \E i \in Requests :
        /\ variant = "main" /\ NamesRegisteredPair(i)
        /\ calls[i] # <<>> /\ calls[i][1].fn = HandlerFn(s_Catalog, s_list)
        /\ outcomes[i] = <<Reject(Message("downstream failure", <<>>))>>
        /\ Answered(i)
        /\ ErrorMessage(Response(i)) = Message("downstream failure", <<>>)

\* the handler (or the function called as handler) of request i resolved
HandlerResolved(i) ==
    /\ variant = "main"
    /\ Settled(i)
    /\ LastOutcome(i).k = "resolve"
Content(i) == Response(i).json.result.content

Permitted(i) ==
    /\ variant = "main"
    /\ NamesRegisteredPair(i)
    /\ ~WriteBarred(i)
HandlerCalled(i) == pc[i] \in {"awaitHandler", "done"}

\* C19 as stated: for a resolved, permitted (service, method) the handler is
\* called with the caller's request as it is, whatever its shape, and with
\* an empty mapping exactly when the request is absent (undefined or null).
C19_AsStated ==
    \A i \in Requests :
        (Permitted(i) /\ HandlerCalled(i)) =>
            /\ Len(calls[i]) = 1
            /\ calls[i][1].arg =
                   IF IsNullish(ArgsOf(i).request) THEN PlainObject({})
                   ELSE ArgsOf(i).request

\* C19, amended: for a resolved, permitted (service, method) the handler is
\* called, without any validation of the request, with the caller's request
\* as it is when that value is truthy, and with an empty mapping when it is
\* absent or any other falsy value (null, false); whether the method has
\* type information has no influence on the call.
C19_NoValidation ==
    \A i \in Requests :
        Permitted(i) =>
            /\ pc[i] \in {"awaitToken", "awaitHandler", "done"}
            /\ HandlerCalled(i) =>
                   /\ Len(calls[i]) = 1
                   /\ calls[i][1].fn = HandlerFn(KeyOf(i), MethodOf(i))
                   /\ calls[i][1].arg =
                          IF ArgsOf(i).request \in {Undefined, Null, Bool(FALSE)}
                              THEN PlainObject({})
                              ELSE ArgsOf(i).request

C19_Witness ==
    \E i \in Requests :
        /\ Permitted(i) /\ HandlerCalled(i)
        /\ KeyOf(i) = s_Customers /\ MethodOf(i) = s_delete
        /\ ~TypeMapHas(RequestTypeName(s_Customers, s_delete))
        /\ ArgsOf(i).request = Num(7)
        /\ calls[i][1].arg = Num(7)

\* request i calls an introspection tool of http-server.ts
Introspects(i) ==
    /\ variant = "main"
    /\ IsToolsCall(i)
    /\ body[i].params.name \in {Lit("get_type_info"), Lit("get_service_info")}
\* what make_api_request does, up to its first await, with the arguments of
\* request i and method m
Dispatch(i, m) ==
    make_api_request([ArgsOf(i) EXCEPT !.method = m], env)
ThrowsTemplate(o, template) ==
    o.k = "throw" /\ o.message.template = template
InvalidServiceTemplate == "Invalid service: ${service}. Available services: ${keys}"
InvalidMethodTemplate ==
    "Invalid method ${method} for service ${service}. Available methods: ${keys}"
AnsweredWith(i, template) ==
    Answered(i) /\ IsError(Response(i)) /\ Template(i) = template

\* C20: get_type_info and get_service_info call no handler, read no
\* credential and are never refused by the write policy; get_type_info is
\* answered with the unknown-service (unknown-method) error exactly when
\* make_api_request with the same service and method is, and with the same
\* message; get_service_info is answered with the unknown-service error
\* exactly when make_api_request with that service is; and get_type_info for
\* names that pass both lookups fails exactly when the method's request type
\* has no entry in the type table.
C20_Introspection ==
    \A i \in Requests :
        Introspects(i) =>
            /\ Answered(i)
            /\ calls[i] = <<>>
            /\ "credential" \notin reads[i]
            /\ IsError(Response(i)) =>
                   /\ ErrorCode(Response(i)) = -32000
                   /\ Template(i) # WriteDisallowed(Undefined, Undefined).template
            /\ CallsTool(i, "get_type_info") =>
                   LET o == Dispatch(i, ArgsOf(i).method) IN
                   /\ AnsweredWith(i, InvalidServiceTemplate) <=>
                          ThrowsTemplate(o, InvalidServiceTemplate)
                   /\ AnsweredWith(i, InvalidMethodTemplate) <=>
                          ThrowsTemplate(o, InvalidMethodTemplate)
                   /\ (ThrowsTemplate(o, InvalidServiceTemplate)
                          \/ ThrowsTemplate(o, InvalidMethodTemplate)) =>
                          ErrorMessage(Response(i)) = o.message
                   /\ ( /\ ArgsOf(i).service.t = "string"
                        /\ ~ThrowsTemplate(o, InvalidServiceTemplate)
                        /\ ~ThrowsTemplate(o, InvalidMethodTemplate) ) =>
                          LET info == Get(Get(serviceMethodsMap,
                                              Str(Capitalize(ArgsOf(i).service.chars))),
                                          ArgsOf(i).method)
                              type == Get(info, Str(s_requestType))
                          IN
                          /\ IsError(Response(i)) <=> ~TypeMapHas(type)
                          /\ IsError(Response(i)) =>
                                 ErrorMessage(Response(i)) = TypeInfoMissing(type)
            /\ CallsTool(i, "get_service_info") =>
                   \A m \in MethodArgs :
                       /\ AnsweredWith(i, InvalidServiceTemplate) <=>
                              ThrowsTemplate(Dispatch(i, m), InvalidServiceTemplate)
                       /\ ThrowsTemplate(Dispatch(i, m), InvalidServiceTemplate) =>
                              ErrorMessage(Response(i)) = Dispatch(i, m).message

C20_Witness ==
    \E i \in Requests :
        /\ Introspects(i) /\ CallsTool(i, "get_type_info") /\ Answered(i)
        /\ env.DISALLOW_WRITES = Lit("true")
        /\ ArgsOf(i).service = Str(s_catalog) /\ ArgsOf(i).method = Str(s_create)
        /\ Dispatch(i, Str(s_create)) =
               Throw(WriteDisallowed(Str(s_catalog), Str(s_create)))
        /\ IsResult(Response(i))

\* the response of a request that runs alone: the handler's steps, one after
\* the other, on body b under process configuration e, with the calls it
\* awaits settling as outs
ResponseAlone(v, b, e, outs) ==
    LET atPost == PostHandler(v, b, e) IN
    IF atPost.k = "respond" THEN atPost
    ELSE LET atToken ==
                 CASE v = "main" -> InvokeHandler(atPost.locals, e)
                   [] v = "simple" ->
                          InnerTry(simple_make_api_request(atPost.locals, e), b.id)
                   [] OTHER ->
                          InnerTry(basic_make_api_request(atPost.locals, e), b.id)
         IN
         IF atToken.k = "respond" THEN atToken
         ELSE IF v = "main" THEN AfterHandler(atToken.locals, outs[1], b.id)
         ELSE LET atFetch == AfterFetch(outs[1], b.id) IN
              IF atFetch.k = "respond" THEN atFetch
              ELSE AfterText(atFetch.locals, outs[2], b.id)

\* the state that belongs to request i
Own(i) == <<pc[i], body[i], pending[i], responses[i], calls[i], reads[i], outcomes[i]>>
\* a step leaves the state of every request but one as it is, and never
\* changes the process configuration
OneRequestSteps ==
    /\ \E i \in DOMAIN pc :
           \A j \in DOMAIN pc \ {i} :
               <<pc[j], body[j], pending[j], responses[j], calls[j], reads[j], outcomes[j]>>'
                   = Own(j)
    /\ UNCHANGED <<variant, env>>
\* an answered request has the response it would have had alone
AnsweredAsAlone ==
    \A i \in Requests :
        Answered(i) =>
            LET alone == ResponseAlone(variant, body[i], env, outcomes[i]) IN
            /\ responses[i] = << [status |-> alone.status, json |-> alone.json] >>
            /\ Response(i).json.id =
                   IF IsNullish(body[i]) THEN Undefined ELSE body[i].id
            /\ Len(calls[i]) <= 1

\* C21: with several requests in flight, interleaved at their awaits in any
\* order, every step changes the state of one request only and never the
\* process configuration, and the response of a request is the one it would
\* have had alone, computed from its own body, the process configuration and
\* the outcome of its own handler call, and carries its own id.
C21_Isolation == []AnsweredAsAlone /\ [][OneRequestSteps]_vars

\* two requests with different ids are in flight together and one is
\* answered, with a handler failure, while the other still waits
C21_Witness ==
    \E i \in Requests : \E j \in Requests \ {i} :
        /\ variant = "main"
        /\ Answered(i) /\ pc[j] = "awaitHandler"
        /\ body[i].id = Lit("1") /\ body[j].id = Lit("2")
        /\ calls[i] # <<>> /\ calls[j] # <<>>
        /\ outcomes[i] = <<Reject(Message("downstream failure", <<>>))>>
        /\ Response(i).json.id = Lit("1")

----------------------------------------------------------------------------
(* The write policy in the REST variants *)

\* request i is make_api_request, in http-server-simple.ts or part_000, for
\* a method name that stands for a write: create, update or delete, or one
\* that the variant sends as POST, PUT or DELETE
NamesRestWrite(i) ==
    /\ variant \in {"simple", "basic"}
    /\ CallsTool(i, "make_api_request")
    /\ ArgsOf(i).service.t = "string"
    /\ ArgsOf(i).method.t = "string"
    /\ toLowerCase(ArgsOf(i).method.chars) \in
           {s_create, s_update, s_delete, <<"p","o","s","t">>, <<"p","u","t">>}
\* the downstream HTTP calls request i has issued
FetchCalls(i) == { k \in 1..Len(calls[i]) : calls[i][k].fn = "fetch" }
WriteDisallowedTemplate == WriteDisallowed(Undefined, Undefined).template

\* C22: in the REST variants, with DISALLOW_WRITES=true, make_api_request
\* for a mutating method issues no downstream HTTP call and is answered
\* with the write-disallowed error.
C22_SimpleWriteGate ==
    \A i \in Requests :
        ( NamesRestWrite(i) /\ WritesDisabled(env) ) =>
            /\ FetchCalls(i) = {}
            /\ Answered(i) =>
                   /\ IsError(Response(i))
                   /\ ErrorMessage(Response(i)) =
                          WriteDisallowed(ArgsOf(i).service, ArgsOf(i).method)

\* what the REST variants do instead: they never give the write refusal,
\* and a mutating request that gets past setBaseUrl() and the endpoint
\* lookup is sent downstream whatever DISALLOW_WRITES says
C22_RestVariantsHaveNoGate ==
    \A i \in Requests :
        /\ ( variant \in {"simple", "basic"} /\ Answered(i) /\ IsError(Response(i)) ) =>
               Template(i) # WriteDisallowedTemplate
        /\ ( NamesRestWrite(i) /\ Answered(i)
             /\ setBaseUrl(env).k = "return"
             /\ ( variant = "simple" =>
                      Truthy(Get(serviceEndpoints,
                                 Str(toLowerCase(ArgsOf(i).service.chars)))) ) ) =>
               FetchCalls(i) # {}
\* a mutating request sent downstream by http-server-simple.ts although
\* DISALLOW_WRITES is "true"
C22_WriteSentDownstream ==
    \E i \in Requests :
        /\ variant = "simple"
        /\ NamesRestWrite(i)
        /\ WritesDisabled(env)
        /\ ArgsOf(i).method = Str(s_create)
        /\ Answered(i)
        /\ \E k \in FetchCalls(i) : calls[i][k].method = Str(<<"P","O","S","T">>)

====
